---- MODULE Spec2Model ----
(***************************************************************************)
(* Model of avalanche-types/src/ids.rs: the fixed-length identifiers Id    *)
(* (32 bytes), ShortId (20 bytes) and NodeId (20 bytes), their checksummed *)
(* Base58 text forms, their order, equality and hash, and the derivations  *)
(* that construct them.                                                    *)
(*                                                                         *)
(* A byte buffer is a sequence of numbers in 0..255.  A character is its   *)
(* Unicode scalar value, a number, and a text is a sequence of characters, *)
(* one element for each character whatever the number of its bytes:        *)
(* str_len is the length of a text in bytes, and Str writes a text of      *)
(* printable ASCII characters.  A 32-bit word is a pair <<hi, lo>> of      *)
(* 16-bit halves, so that no intermediate value leaves the 32-bit integer  *)
(* range.                                                                  *)
(***************************************************************************)
EXTENDS Integers, Sequences, FiniteSets, TLC

VARIABLES
    ty,       \* identifier type the run exercises: "Id", "ShortId" or "NodeId"
    buf,      \* raw byte buffer handed to the run by the caller
    ops,      \* names of the operations performed so far, oldest first
    outcome,  \* "none", "ok", "err" (an Err value) or "panic" (assertion/abort)
    id,       \* identifier held by the caller (its byte buffer d), or NoId
    orig,     \* identifier the current text or derived value was produced from
    text,     \* text held by the caller, or NoText
    arg,      \* the argument of the last operation when it is not buf or text
    other,    \* second identifier of a comparison, or NoId
    res,      \* what the comparison, hash and strip operations returned
    statics   \* the process-wide sentinels EMPTY, SHORT_EMPTY, NODE_ID_EMPTY

vars == <<ty, buf, ops, outcome, id, orig, text, arg, other, res, statics>>

----------------------------------------------------------------------------
(* String literals of the source.  CodePoint gives the scalar value of a   *)
(* printable ASCII character: those of U+0020 to U+005F and of U+0061 to   *)
(* U+007E, in their order.                                                 *)

CodePoint ==
    LET low == << " ", "!", "\"", "#", "$", "%", "&", "'", "(", ")", "*", "+", ",", "-", ".", "/",
                  "0", "1", "2", "3", "4", "5", "6", "7", "8", "9", ":", ";", "<", "=", ">", "?",
                  "@", "A", "B", "C", "D", "E", "F", "G", "H", "I", "J", "K", "L", "M", "N", "O",
                  "P", "Q", "R", "S", "T", "U", "V", "W", "X", "Y", "Z", "[", "\\", "]", "^", "_" >>
        high == << "a", "b", "c", "d", "e", "f", "g", "h", "i", "j", "k", "l", "m", "n", "o", "p",
                   "q", "r", "s", "t", "u", "v", "w", "x", "y", "z", "{", "|", "}", "~" >>
    IN  [c \in { low[i] : i \in 1..Len(low) } \cup { high[i] : i \in 1..Len(high) } |->
            IF \E i \in 1..Len(low) : low[i] = c
            THEN 31 + (CHOOSE i \in 1..Len(low) : low[i] = c)
            ELSE 96 + (CHOOSE i \in 1..Len(high) : high[i] = c)]

\* the text that the one-character strings of s spell
Str(s) == [i \in 1..Len(s) |-> CodePoint[s[i]]]

----------------------------------------------------------------------------
(* Program constants, ids.rs lines 20-24.                                  *)

ID_LEN == 32

SHORT_ID_LEN == 20

NODE_ID_LEN == 20

NODE_ID_ENCODE_PREFIX == Str(<<"N", "o", "d", "e", "I", "D", "-">>)

----------------------------------------------------------------------------
(* Bounds of the model.                                                    *)

\* longest explicit head of an input buffer; the rest is a repeated fill byte
MaxHead == 1

\* largest number of u64 tags handed to Id::prefix
MaxTags == 2

\* largest number of elements of a collection
MaxColl == 2

ByteVals == {0, 1, 255}

FillVals == {0, 255}

\* input lengths: around 0, around 20 and around 32
BufLens == {0, 1, 19, 20, 21, 31, 32, 33}

Types == {"Id", "ShortId", "NodeId"}

NoId == [t |-> "none", d |-> <<>>]

\* no text is held: -1 is no character
NoText == <<-1>>

NoRes == [kind |-> "none"]

----------------------------------------------------------------------------
(* Byte-buffer helpers (Vec<u8> operations used by ids.rs).                *)

Zeros(n) == [i \in 1..n |-> 0]

\* Vec::resize(n, 0) on a vector no longer than n
Resize(d, n) == d \o Zeros(n - Len(d))

Take(s, n) == SubSeq(s, 1, n)

Drop(s, n) == SubSeq(s, n + 1, Len(s))

Reverse(s) == [i \in 1..Len(s) |-> s[Len(s) + 1 - i]]

\* evaluates v once and hands the value to F
Bind(v, F(_)) == CHOOSE r \in { F(x) : x \in {v} } : TRUE

\* the loop "for i in lo..=hi { acc = F(acc, i) }", evaluated by halving the
\* range so that the evaluation depth grows with the logarithm of its length
RECURSIVE Fold(_, _, _, _)
Fold(F(_, _), acc, lo, hi) ==
    IF lo > hi THEN acc
    ELSE IF lo = hi THEN F(acc, lo)
    ELSE LET mid == (lo + hi) \div 2
         IN  Bind(Fold(F, acc, lo, mid), LAMBDA a : Fold(F, a, mid + 1, hi))

----------------------------------------------------------------------------
(* utils::hash::compute_sha256: SHA-256 (FIPS 180-4) over a byte buffer.   *)

RECURSIVE XorBits(_, _)
XorBits(a, b) ==
    IF a = 0 THEN b
    ELSE IF b = 0 THEN a
    ELSE ((a + b) % 2) + 2 * XorBits(a \div 2, b \div 2)

RECURSIVE AndBits(_, _)
AndBits(a, b) ==
    IF a = 0 \/ b = 0 THEN 0
    ELSE ((a % 2) * (b % 2)) + 2 * AndBits(a \div 2, b \div 2)

XorByte == [a \in 0..255 |-> [b \in 0..255 |-> XorBits(a, b)]]

AndByte == [a \in 0..255 |-> [b \in 0..255 |-> AndBits(a, b)]]

Xor16(a, b) == XorByte[a \div 256][b \div 256] * 256 + XorByte[a % 256][b % 256]

And16(a, b) == AndByte[a \div 256][b \div 256] * 256 + AndByte[a % 256][b % 256]

WXor(u, v) == <<Xor16(u[1], v[1]), Xor16(u[2], v[2])>>

WAnd(u, v) == <<And16(u[1], v[1]), And16(u[2], v[2])>>

WNot(u) == <<65535 - u[1], 65535 - u[2]>>

WOr(u, v) == WNot(WAnd(WNot(u), WNot(v)))

\* addition modulo 2^32
WAdd(u, v) ==
    LET lo == u[2] + v[2]
    IN  <<(u[1] + v[1] + (lo \div 65536)) % 65536, lo % 65536>>

Pow2(n) == CASE n = 0 -> 1 [] n = 1 -> 2 [] n = 2 -> 4 [] n = 3 -> 8
             [] n = 4 -> 16 [] n = 5 -> 32 [] n = 6 -> 64 [] n = 7 -> 128
             [] n = 8 -> 256 [] n = 9 -> 512 [] n = 10 -> 1024 [] n = 11 -> 2048
             [] n = 12 -> 4096 [] n = 13 -> 8192 [] n = 14 -> 16384
             [] n = 15 -> 32768 [] n = 16 -> 65536

\* rotate a word right by n bits, 0 < n < 32
RotR(u, n) ==
    LET s == IF n >= 16 THEN <<u[2], u[1]>> ELSE u
        k == n % 16
    IN  IF k = 0 THEN s
        ELSE <<(s[1] \div Pow2(k)) + (s[2] % Pow2(k)) * Pow2(16 - k),
               (s[2] \div Pow2(k)) + (s[1] % Pow2(k)) * Pow2(16 - k)>>

\* rotate a word left by n bits, 0 < n < 32
RotL(u, n) == RotR(u, 32 - n)

\* shift a word right by n bits, 0 < n < 16
ShR(u, n) ==
    <<u[1] \div Pow2(n), (u[2] \div Pow2(n)) + (u[1] % Pow2(n)) * Pow2(16 - n)>>

SmallSigma0(u) == WXor(WXor(RotR(u, 7), RotR(u, 18)), ShR(u, 3))

SmallSigma1(u) == WXor(WXor(RotR(u, 17), RotR(u, 19)), ShR(u, 10))

BigSigma0(u) == WXor(WXor(RotR(u, 2), RotR(u, 13)), RotR(u, 22))

BigSigma1(u) == WXor(WXor(RotR(u, 6), RotR(u, 11)), RotR(u, 25))

Ch(e, f, g) == WXor(WAnd(e, f), WAnd(WNot(e), g))

Maj(a, b, c) == WXor(WXor(WAnd(a, b), WAnd(a, c)), WAnd(b, c))

SHA256_K ==
    <<
       <<17034, 12184>>, <<28983, 17553>>, <<46528, 64463>>, <<59829, 56229>>,
       <<14678, 49755>>, <<23025, 4593>>, <<37439, 33444>>, <<43804, 24277>>,
       <<55303, 43672>>, <<4739, 23297>>, <<9265, 34238>>, <<21772, 32195>>,
       <<29374, 23924>>, <<32990, 45566>>, <<39900, 1703>>, <<49563, 61812>>,
       <<58523, 27073>>, <<61374, 18310>>, <<4033, 40390>>, <<9228, 41420>>,
       <<11753, 11375>>, <<19060, 33962>>, <<23728, 43484>>, <<30457, 35034>>,
       <<38974, 20818>>, <<43057, 50797>>, <<45059, 10184>>, <<48985, 32711>>,
       <<50912, 3059>>, <<54695, 37191>>, <<1738, 25425>>, <<5161, 10599>>,
       <<10167, 2693>>, <<11803, 8504>>, <<19756, 28156>>, <<21304, 3347>>,
       <<25866, 29524>>, <<30314, 2747>>, <<33218, 51502>>, <<37490, 11397>>,
       <<41663, 59553>>, <<43034, 26187>>, <<49739, 35696>>, <<51052, 20899>>,
       <<53650, 59417>>, <<54937, 1572>>, <<62478, 13701>>, <<4202, 41072>>,
       <<6564, 49430>>, <<7735, 27656>>, <<10056, 30540>>, <<13488, 48309>>,
       <<14620, 3251>>, <<20184, 43594>>, <<23452, 51791>>, <<26670, 28659>>,
       <<29839, 33518>>, <<30885, 25455>>, <<33992, 30740>>, <<36039, 520>>,
       <<37054, 65530>>, <<42064, 27883>>, <<48889, 41975>>, <<50801, 30962>> >>

SHA256_H0 ==
    <<
       <<27145, 58983>>, <<47975, 44677>>, <<15470, 62322>>, <<42319, 62778>>,
       <<20750, 21119>>, <<39685, 26764>>, <<8067, 55723>>, <<23520, 52505>> >>

\* message padding: 0x80, zero bytes, then the bit length as 64 bits big-endian
ShaPad(m) ==
    LET l == Len(m)
        bits == l * 8
    IN  m \o <<128>> \o Zeros((119 - l) % 64) \o Zeros(4)
          \o << (bits \div 16777216) % 256, (bits \div 65536) % 256,
                (bits \div 256) % 256, bits % 256 >>

\* the 16 big-endian words of block blk of the padded message p
BlockWords(p, blk) ==
    [i \in 1..16 |->
        LET o == (blk - 1) * 64 + (i - 1) * 4
        IN  <<p[o + 1] * 256 + p[o + 2], p[o + 3] * 256 + p[o + 4]>>]

\* the message schedule: words 17..64 from the 16 words of the block
Schedule(w16) ==
    Fold(LAMBDA w, t :
             Append(w, WAdd(WAdd(SmallSigma1(w[t - 2]), w[t - 7]),
                            WAdd(SmallSigma0(w[t - 15]), w[t - 16]))),
         w16, 17, 64)

RoundStep(s, wt, kt) ==
    Bind(WAdd(WAdd(WAdd(s[8], BigSigma1(s[5])), Ch(s[5], s[6], s[7])),
              WAdd(kt, wt)),
         LAMBDA t1 :
             <<WAdd(t1, WAdd(BigSigma0(s[1]), Maj(s[1], s[2], s[3]))),
               s[1], s[2], s[3], WAdd(s[4], t1), s[5], s[6], s[7]>>)

Rounds(h, w) == Fold(LAMBDA s, t : RoundStep(s, w[t], SHA256_K[t]), h, 1, 64)

Compress(h, w16) ==
    Bind(Rounds(h, Schedule(w16)), LAMBDA r : [i \in 1..8 |-> WAdd(h[i], r[i])])

\* the digest state after every 64-byte block of the padded message p
Blocks(h0, p) ==
    Fold(LAMBDA h, blk : Compress(h, BlockWords(p, blk)), h0, 1, Len(p) \div 64)

\* byte k (0..3, most significant first) of a word
WordByte(wd, k) ==
    IF k = 0 THEN wd[1] \div 256
    ELSE IF k = 1 THEN wd[1] % 256
    ELSE IF k = 2 THEN wd[2] \div 256
    ELSE wd[2] % 256

compute_sha256(m) ==
    Bind(Blocks(SHA256_H0, ShaPad(m)), LAMBDA h :
        [i \in 1..32 |-> WordByte(h[((i - 1) \div 4) + 1], (i - 1) % 4)])

----------------------------------------------------------------------------
(* formatting::encode_cb58_with_checksum / decode_cb58_with_checksum:      *)
(* Base58 (Bitcoin alphabet) over data ++ checksum.  The checksum is the   *)
(* last CHECKSUM_LENGTH bytes of SHA-256(data): that is what the vectors   *)
(* of test_id, test_short_id and test_from_cert_file require.              *)

CHECKSUM_LENGTH == 4

BASE58_ALPHABET ==
    Str(<< "1", "2", "3", "4", "5", "6", "7", "8", "9",
       "A", "B", "C", "D", "E", "F", "G", "H", "J", "K", "L", "M", "N",
       "P", "Q", "R", "S", "T", "U", "V", "W", "X", "Y", "Z",
       "a", "b", "c", "d", "e", "f", "g", "h", "i", "j", "k", "m",
       "n", "o", "p", "q", "r", "s", "t", "u", "v", "w", "x", "y", "z" >>)

Base58Chars == { BASE58_ALPHABET[i] : i \in 1..58 }

\* digit value (0..57) of an alphabet character
Base58Value == [c \in Base58Chars |-> (CHOOSE i \in 1..58 : BASE58_ALPHABET[i] = c) - 1]

\* the little-endian digits of carry in base `base`
RECURSIVE CarryDigits(_, _)
CarryDigits(carry, base) ==
    IF carry = 0 THEN <<>> ELSE <<carry % base>> \o CarryDigits(carry \div base, base)

\* num is a little-endian digit sequence in base `base`; the result is the
\* digit sequence of num * mult + add, grown by as many digits as it needs
MulAdd(num, mult, base, add) ==
    Bind(Fold(LAMBDA a, i :
                  LET cur == num[i] * mult + a[2]
                  IN  <<Append(a[1], cur % base), cur \div base>>,
              <<<<>>, add>>, 1, Len(num)),
         LAMBDA r : r[1] \o CarryDigits(r[2], base))

\* number of leading elements of s equal to z
LeadingCount(s, z) ==
    IF \A i \in 1..Len(s) : s[i] = z THEN Len(s)
    ELSE (CHOOSE i \in 1..Len(s) : s[i] # z /\ \A j \in 1..(i - 1) : s[j] = z) - 1

\* base-58 digits (little-endian) of the big-endian byte string b[from..]
Base58Digits(b, from) ==
    Fold(LAMBDA digits, i : MulAdd(digits, 256, 58, b[i]), <<>>, from, Len(b))

\* bs58::encode(b).into_string()
Base58Encode(b) ==
    Bind(LeadingCount(b, 0), LAMBDA z :
        [i \in 1..z |-> BASE58_ALPHABET[1]] \o
        Bind(Reverse(Base58Digits(b, z + 1)), LAMBDA digits :
            [i \in 1..Len(digits) |-> BASE58_ALPHABET[digits[i] + 1]]))

\* bytes (little-endian) of the number written by the characters s[from..]
Base58Bytes(s, from) ==
    Fold(LAMBDA bytes, i : MulAdd(bytes, 58, 256, Base58Value[s[i]]), <<>>, from, Len(s))

\* bs58::decode(s).into_vec(): Err on a character outside the alphabet
Base58Decode(s) ==
    IF \E i \in 1..Len(s) : s[i] \notin Base58Chars
    THEN [ok |-> FALSE, bytes |-> <<>>]
    ELSE Bind(LeadingCount(s, BASE58_ALPHABET[1]), LAMBDA z :
             [ok |-> TRUE,
              bytes |-> Zeros(z) \o Reverse(Base58Bytes(s, z + 1))])

\* the checksum is the trailing CHECKSUM_LENGTH bytes of the SHA-256 digest: the
\* texts expected by test_id and test_short_id (ids.rs 151-174, 429-437) fix it
Checksum(d) == Drop(compute_sha256(d), 32 - CHECKSUM_LENGTH)

encode_cb58_with_checksum(d) == Base58Encode(d \o Checksum(d))

\* Ok(payload) when the text decodes and its last four bytes are the checksum
\* of the bytes before them; Err otherwise. A text that decodes to fewer than
\* four bytes has no checksum to split off and is taken as a failed decode.
decode_cb58_with_checksum(s) ==
    Bind(Base58Decode(s), LAMBDA dec :
        IF ~dec.ok \/ Len(dec.bytes) < CHECKSUM_LENGTH
        THEN [ok |-> FALSE, bytes |-> <<>>]
        ELSE LET n == Len(dec.bytes) - CHECKSUM_LENGTH
             IN  IF Drop(dec.bytes, n) = Checksum(Take(dec.bytes, n))
                 THEN [ok |-> TRUE, bytes |-> Take(dec.bytes, n)]
                 ELSE [ok |-> FALSE, bytes |-> <<>>])

----------------------------------------------------------------------------
(* soft_key::bytes_to_short_address_bytes: RIPEMD-160(SHA-256(bytes)),     *)
(* "hashing.PubkeyBytesToAddress".                                         *)

RMD_R_LEFT ==
    <<
       0, 1, 2, 3, 4, 5, 6, 7, 8, 9, 10, 11, 12, 13, 14, 15,
       7, 4, 13, 1, 10, 6, 15, 3, 12, 0, 9, 5, 2, 14, 11, 8,
       3, 10, 14, 4, 9, 15, 8, 1, 2, 7, 0, 6, 13, 11, 5, 12,
       1, 9, 11, 10, 0, 8, 12, 4, 13, 3, 7, 15, 14, 5, 6, 2,
       4, 0, 5, 9, 7, 12, 2, 10, 14, 1, 3, 8, 11, 6, 15, 13 >>

RMD_R_RIGHT ==
    <<
       5, 14, 7, 0, 9, 2, 11, 4, 13, 6, 15, 8, 1, 10, 3, 12,
       6, 11, 3, 7, 0, 13, 5, 10, 14, 15, 8, 12, 4, 9, 1, 2,
       15, 5, 1, 3, 7, 14, 6, 9, 11, 8, 12, 2, 10, 0, 4, 13,
       8, 6, 4, 1, 3, 11, 15, 0, 5, 12, 2, 13, 9, 7, 10, 14,
       12, 15, 10, 4, 1, 5, 8, 7, 6, 2, 13, 14, 0, 3, 9, 11 >>

RMD_S_LEFT ==
    <<
       11, 14, 15, 12, 5, 8, 7, 9, 11, 13, 14, 15, 6, 7, 9, 8,
       7, 6, 8, 13, 11, 9, 7, 15, 7, 12, 15, 9, 11, 7, 13, 12,
       11, 13, 6, 7, 14, 9, 13, 15, 14, 8, 13, 6, 5, 12, 7, 5,
       11, 12, 14, 15, 14, 15, 9, 8, 9, 14, 5, 6, 8, 6, 5, 12,
       9, 15, 5, 11, 6, 8, 13, 12, 5, 12, 13, 14, 11, 8, 5, 6 >>

RMD_S_RIGHT ==
    <<
       8, 9, 9, 11, 13, 15, 15, 5, 7, 7, 8, 11, 14, 14, 12, 6,
       9, 13, 15, 7, 12, 8, 9, 11, 7, 7, 12, 7, 6, 15, 13, 11,
       9, 7, 15, 11, 8, 6, 6, 14, 12, 13, 5, 14, 13, 13, 7, 5,
       15, 5, 8, 11, 14, 14, 6, 14, 6, 9, 12, 9, 12, 5, 15, 8,
       8, 5, 12, 9, 12, 5, 14, 6, 8, 13, 6, 5, 15, 13, 11, 11 >>

RMD_K_LEFT == << <<0, 0>>, <<23170, 31129>>, <<28377, 60321>>, <<36635, 48348>>, <<43347, 64846>> >>

RMD_K_RIGHT == << <<20642, 35814>>, <<23629, 53540>>, <<28016, 16115>>, <<31341, 30441>>, <<0, 0>> >>

RMD_H0 == << <<26437, 8961>>, <<61389, 43913>>, <<39098, 56574>>, <<4146, 21622>>, <<50130, 57840>> >>

\* the round function of step j (0..79)
RmdF(j, x, y, z) ==
    IF j < 16 THEN WXor(WXor(x, y), z)
    ELSE IF j < 32 THEN WOr(WAnd(x, y), WAnd(WNot(x), z))
    ELSE IF j < 48 THEN WXor(WOr(x, WNot(y)), z)
    ELSE IF j < 64 THEN WOr(WAnd(x, z), WAnd(y, WNot(z)))
    ELSE WXor(x, WOr(y, WNot(z)))

\* one step of a line on the state s = <<a, b, c, d, e>>
RmdStep(s, fj, x, k, rot) ==
    << s[5],
       WAdd(RotL(WAdd(WAdd(s[1], RmdF(fj, s[2], s[3], s[4])), WAdd(x, k)), rot), s[5]),
       s[2], RotL(s[3], 10), s[4] >>

\* the 80 steps of the left line and of the right line over the block x,
\* both started from h
RmdLines(h, x) ==
    Fold(LAMBDA lr, j :
             <<RmdStep(lr[1], j - 1, x[RMD_R_LEFT[j] + 1],
                       RMD_K_LEFT[((j - 1) \div 16) + 1], RMD_S_LEFT[j]),
               RmdStep(lr[2], 80 - j, x[RMD_R_RIGHT[j] + 1],
                       RMD_K_RIGHT[((j - 1) \div 16) + 1], RMD_S_RIGHT[j])>>,
         <<h, h>>, 1, 80)

\* the new digest state from the old one and the final states l, r of the lines
RmdCombine(h, l, r) ==
    << WAdd(WAdd(h[2], l[3]), r[4]),
       WAdd(WAdd(h[3], l[4]), r[5]),
       WAdd(WAdd(h[4], l[5]), r[1]),
       WAdd(WAdd(h[5], l[1]), r[2]),
       WAdd(WAdd(h[1], l[2]), r[3]) >>

RmdCompress(h, x) == Bind(RmdLines(h, x), LAMBDA lr : RmdCombine(h, lr[1], lr[2]))

\* message padding: 0x80, zero bytes, then the bit length as 64 bits little-endian
RmdPad(m) ==
    LET l == Len(m)
        bits == l * 8
    IN  m \o <<128>> \o Zeros((119 - l) % 64)
          \o << bits % 256, (bits \div 256) % 256, (bits \div 65536) % 256,
                (bits \div 16777216) % 256 >>
          \o Zeros(4)

\* the 16 little-endian words of block blk of the padded message p
RmdBlockWords(p, blk) ==
    [i \in 1..16 |->
        LET o == (blk - 1) * 64 + (i - 1) * 4
        IN  <<p[o + 4] * 256 + p[o + 3], p[o + 2] * 256 + p[o + 1]>>]

RmdBlocks(h0, p) ==
    Fold(LAMBDA h, blk : RmdCompress(h, RmdBlockWords(p, blk)), h0, 1, Len(p) \div 64)

compute_ripemd160(m) ==
    Bind(RmdBlocks(RMD_H0, RmdPad(m)), LAMBDA h :
        [i \in 1..20 |-> WordByte(h[((i - 1) \div 4) + 1], 3 - ((i - 1) % 4))])

\* Ok(20 bytes): the digest cannot fail
bytes_to_short_address_bytes(d) == compute_ripemd160(compute_sha256(d))

----------------------------------------------------------------------------
(* Results.  A call returns normally with a value ("ok"), returns an Err    *)
(* value ("err"), or aborts the caller by a failed assertion, an unwrap of  *)
(* None or an out-of-range slice ("panic").                                 *)

Ok(t, d) == [kind |-> "ok", t |-> t, d |-> d, e |-> "none"]

\* e is the io::ErrorKind of the Err value
Err(t, e) == [kind |-> "err", t |-> t, d |-> <<>>, e |-> e]

Panic(t) == [kind |-> "panic", t |-> t, d |-> <<>>, e |-> "none"]

\* the identifier a result carries, if any
ValueOf(r) == IF r.kind = "ok" THEN [t |-> r.t, d |-> r.d] ELSE NoId

MkId(t, d) == [t |-> t, d |-> d]

NominalLen(t) ==
    IF t = "Id" THEN ID_LEN ELSE IF t = "ShortId" THEN SHORT_ID_LEN ELSE NODE_ID_LEN

----------------------------------------------------------------------------
(* The lazily initialised sentinels, ids.rs lines 26-30: process-wide      *)
(* state, set once by the initialisers below and read by default, empty    *)
(* and is_empty.                                                           *)

\* vec![0; ID_LEN], vec![0; SHORT_ID_LEN], vec![0; NODE_ID_LEN]
StaticsInit ==
    [EMPTY |-> Zeros(ID_LEN), SHORT_EMPTY |-> Zeros(SHORT_ID_LEN),
     NODE_ID_EMPTY |-> Zeros(NODE_ID_LEN)]

EMPTY == statics.EMPTY

SHORT_EMPTY == statics.SHORT_EMPTY

NODE_ID_EMPTY == statics.NODE_ID_EMPTY

----------------------------------------------------------------------------
(* Id, ids.rs lines 33-199.                                                *)

Id_default == MkId("Id", EMPTY)

Id_empty == MkId("Id", EMPTY)

\* Id::from_slice without the resize: a short input is kept as it is
Id_from_slice_no_pad(d) ==
    IF ~(Len(d) <= ID_LEN) THEN Panic("Id") ELSE Ok("Id", d)

\* assert!(d.len() <= ID_LEN); resize with zeros when shorter
Id_from_slice(d) ==
    IF ~(Len(d) <= ID_LEN) THEN Panic("Id")
    ELSE IF Len(d) < ID_LEN THEN Ok("Id", Resize(d, ID_LEN))
    ELSE Ok("Id", d)

Id_to_string(x) == encode_cb58_with_checksum(x.d)

\* Id::from_str keeping the decoded payload instead of calling from_slice
Id_from_str_unpadded(s) ==
    Bind(decode_cb58_with_checksum(s), LAMBDA decoded :
        IF ~decoded.ok THEN Err("Id", "Other") ELSE Ok("Id", decoded.bytes))

Id_from_str(s) ==
    Bind(decode_cb58_with_checksum(s), LAMBDA decoded :
        IF ~decoded.ok THEN Err("Id", "Other") ELSE Id_from_slice(decoded.bytes))

\* Vec<u8> as Ord: the first unequal pair of elements decides, and when one
\* vector is a prefix of the other the lengths decide
VecCmp(a, b) ==
    LET l == IF Len(a) < Len(b) THEN Len(a) ELSE Len(b)
        unequal == { i \in 1..l : a[i] # b[i] }
    IN  IF unequal # {}
        THEN LET i == CHOOSE k \in unequal : \A j \in unequal : k <= j
             IN  IF a[i] < b[i] THEN "Less" ELSE "Greater"
        ELSE IF Len(a) < Len(b) THEN "Less"
        ELSE IF Len(a) > Len(b) THEN "Greater"
        ELSE "Equal"

\* Id::cmp with the operands exchanged
Id_cmp_reversed(x, y) == VecCmp(y.d, x.d)

Id_cmp(x, y) == VecCmp(x.d, y.d)

Id_partial_cmp(x, y) == Id_cmp(x, y)

Id_eq(x, y) == Id_cmp(x, y) = "Equal"

\* Vec<u8> as Hash: what is written to the Hasher, the length and then the bytes
VecHash(d) == <<Len(d)>> \o d

Id_hash(x) == VecHash(x.d)

----------------------------------------------------------------------------
(* packer::Packer as Id::prefix uses it: a buffer that never grows beyond  *)
(* max_size; a write that would exceed it records an error and is dropped, *)
(* as is every write after it.                                             *)

U64_LEN == 8

Packer_new(max_size) == [max_size |-> max_size, bytes |-> <<>>, errored |-> FALSE]

Packer_pack_bytes(p, b) ==
    IF p.errored \/ Len(p.bytes) + Len(b) > p.max_size
    THEN [p EXCEPT !.errored = TRUE]
    ELSE [p EXCEPT !.bytes = p.bytes \o b]

\* the 8 big-endian bytes of v, 0 <= v < 2^31
U64Bytes(v) ==
    Zeros(4) \o << (v \div 16777216) % 256, (v \div 65536) % 256,
                   (v \div 256) % 256, v % 256 >>

Packer_pack_u64(p, v) == Packer_pack_bytes(p, U64Bytes(v))

RECURSIVE PackAll(_, _)
PackAll(p, prefixes) ==
    IF prefixes = <<>> THEN p
    ELSE PackAll(Packer_pack_u64(p, Head(prefixes)), Tail(prefixes))

\* the packer of Id::prefix after the tags and the bytes of x were written
\* to it: max_size is prefixes.len() + U64_LEN + 32
Id_prefix_packer(x, prefixes) ==
    Packer_pack_bytes(
        PackAll(Packer_new(Len(prefixes) + U64_LEN + 32), prefixes), x.d)

\* Id::prefix, ids.rs lines 69-80: the results it can give.  It ignores what
\* the writes return.  What the packer does with a write beyond max_size is
\* not decided by ids.rs: it aborts the caller, or it refuses the write and
\* take_bytes gives what was written before it; both are outcomes here.
Id_prefix(x, prefixes) ==
    Bind(Id_prefix_packer(x, prefixes), LAMBDA packer :
        IF packer.errored
        THEN {Panic("Id"), Id_from_slice(compute_sha256(packer.bytes))}
        ELSE {Id_from_slice(compute_sha256(packer.bytes))})

----------------------------------------------------------------------------
(* ShortId, ids.rs lines 322-462.                                          *)

ShortId_default == MkId("ShortId", SHORT_EMPTY)

ShortId_empty == MkId("ShortId", SHORT_EMPTY)

\* ShortId::from_slice truncating a long input instead of asserting
ShortId_from_slice_truncating(d) ==
    IF Len(d) < SHORT_ID_LEN THEN Ok("ShortId", Resize(d, SHORT_ID_LEN))
    ELSE Ok("ShortId", Take(d, SHORT_ID_LEN))

ShortId_from_slice(d) ==
    IF ~(Len(d) <= SHORT_ID_LEN) THEN Panic("ShortId")
    ELSE IF Len(d) < SHORT_ID_LEN THEN Ok("ShortId", Resize(d, SHORT_ID_LEN))
    ELSE Ok("ShortId", d)

ShortId_to_string(x) == encode_cb58_with_checksum(x.d)

ShortId_from_str(s) ==
    Bind(decode_cb58_with_checksum(s), LAMBDA decoded :
        IF ~decoded.ok THEN Err("ShortId", "Other") ELSE ShortId_from_slice(decoded.bytes))

ShortId_cmp(x, y) == VecCmp(x.d, y.d)

\* ShortId::eq looking at the first byte only
ShortId_eq_first_byte(x, y) == x.d[1] = y.d[1]

ShortId_eq(x, y) == ShortId_cmp(x, y) = "Equal"

ShortId_hash(x) == VecHash(x.d)

----------------------------------------------------------------------------
(* NodeId, ids.rs lines 585-920 and 1156-1163.                             *)

NodeId_default == MkId("NodeId", NODE_ID_EMPTY)

NodeId_empty == MkId("NodeId", NODE_ID_EMPTY)

\* assert_eq!(d.len(), SHORT_ID_LEN)
NodeId_from_slice(d) ==
    IF Len(d) # SHORT_ID_LEN THEN Panic("NodeId") ELSE Ok("NodeId", d)

\* char::len_utf8: 1 byte below U+0080, 2 below U+0800, 3 below U+10000, 4
\* from there on
len_utf8(c) ==
    IF c < 128 THEN 1 ELSE IF c < 2048 THEN 2 ELSE IF c < 65536 THEN 3 ELSE 4

\* str::len, the number of bytes of the text
RECURSIVE str_len(_)
str_len(s) == IF s = <<>> THEN 0 ELSE len_utf8(Head(s)) + str_len(Tail(s))

\* the number of characters the first n bytes of s are made of, or -1 when
\* s has fewer than n bytes or its byte n is inside a character: the cases
\* where the slices &s[0..n] and &s[n..] abort
CharsOfBytes(s, n) ==
    LET ks == { k \in 0..(IF Len(s) < n THEN Len(s) ELSE n) : str_len(Take(s, k)) = n }
    IN  IF ks = {} THEN -1 ELSE CHOOSE k \in ks : TRUE

\* n is the length of the prefix in bytes and &addr[0..n] is a slice of
\* bytes: it aborts when addr has fewer than n bytes and when byte n is not
\* a character boundary
strip_node_id_prefix(addr) ==
    LET n == str_len(NODE_ID_ENCODE_PREFIX)
        k == CharsOfBytes(addr, n)
    IN  IF k = -1 THEN [kind |-> "panic", s |-> <<>>]
        ELSE IF Take(addr, k) = NODE_ID_ENCODE_PREFIX
        THEN [kind |-> "ok", s |-> Drop(addr, k)]
        ELSE [kind |-> "ok", s |-> addr]

NodeId_from_cert_raw(cert_raw) ==
    NodeId_from_slice(bytes_to_short_address_bytes(cert_raw))

\* an Err value of from_cert_file: its io::ErrorKind and its message
IoErr(e, msg) == [kind |-> "err", t |-> "NodeId", d |-> <<>>, e |-> e, msg |-> msg]

\* format!("cert path {} does not exists", cert_file_path)
MsgDoesNotExist(cert_file_path) ==
    Str(<<"c", "e", "r", "t", " ", "p", "a", "t", "h", " ">>) \o cert_file_path \o Str(<<" ", "d", "o", "e", "s", " ", "n", "o", "t", " ", "e", "x", "i", "s", "t", "s">>)

\* format!("cert path {} found no cert", cert_file_path)
MsgFoundNoCert(cert_file_path) ==
    Str(<<"c", "e", "r", "t", " ", "p", "a", "t", "h", " ">>) \o cert_file_path \o Str(<<" ", "f", "o", "u", "n", "d", " ", "n", "o", " ", "c", "e", "r", "t">>)

\* no io::Error from a call to the file system
NoIoError == [e |-> "none", msg |-> <<>>]

\* NodeId::from_cert_file with messages that do not name the path
NodeId_from_cert_file_no_path(cert_file_path, file) ==
    IF ~file.exists THEN IoErr("NotFound", Str(<<"c", "e", "r", "t", " ", "p", "a", "t", "h", " ">>) \o Str(<<" ", "d", "o", "e", "s", " ", "n", "o", "t", " ", "e", "x", "i", "s", "t", "s">>))
    ELSE IF file.open # NoIoError THEN IoErr(file.open.e, file.open.msg)
    ELSE IF file.read # NoIoError THEN IoErr(file.read.e, file.read.msg)
    ELSE IF file.items = <<>> THEN Panic("NodeId")
    ELSE IF Head(file.items).item = "X509Certificate"
    THEN NodeId_from_cert_raw(Head(file.items).der)
    ELSE IoErr("NotFound", Str(<<"c", "e", "r", "t", " ", "p", "a", "t", "h", " ">>) \o Str(<<" ", "f", "o", "u", "n", "d", " ", "n", "o", " ", "c", "e", "r", "t">>))

\* NodeId::from_cert_file using the last PEM item of the file
NodeId_from_cert_file_last_item(cert_file_path, file) ==
    IF ~file.exists THEN IoErr("NotFound", MsgDoesNotExist(cert_file_path))
    ELSE IF file.open # NoIoError THEN IoErr(file.open.e, file.open.msg)
    ELSE IF file.read # NoIoError THEN IoErr(file.read.e, file.read.msg)
    ELSE IF file.items = <<>> THEN Panic("NodeId")
    ELSE IF file.items[Len(file.items)].item = "X509Certificate"
    THEN NodeId_from_cert_raw(file.items[Len(file.items)].der)
    ELSE IoErr("NotFound", MsgFoundNoCert(cert_file_path))

\* What cert_file_path names is file = [exists, open, read, items]: the
\* answer of Path::exists (line 623), the result of File::open (line 645),
\* the result of the reads read_one makes up to the end of the first PEM
\* section (line 647), each of the two NoIoError or the io::Error [e, msg],
\* and the PEM items read_one finds in the file, in order, each [item, der].
\* exists and open are two calls to the file system with an answer each, so
\* a file that goes away in between answers TRUE and then fails to open.
\* Each `?` returns the io::Error as it is.  read_one returns the first item,
\* or None when the file holds no PEM item, and pem_read.unwrap() aborts on
\* None.
NodeId_from_cert_file(cert_file_path, file) ==
    IF ~file.exists THEN IoErr("NotFound", MsgDoesNotExist(cert_file_path))
    ELSE IF file.open # NoIoError THEN IoErr(file.open.e, file.open.msg)
    ELSE IF file.read # NoIoError THEN IoErr(file.read.e, file.read.msg)
    ELSE IF file.items = <<>> THEN Panic("NodeId")
    ELSE IF Head(file.items).item = "X509Certificate"
    THEN NodeId_from_cert_raw(Head(file.items).der)
    ELSE IoErr("NotFound", MsgFoundNoCert(cert_file_path))

\* NodeId::short_id hashing the bytes once more
NodeId_short_id_rehashed(x) ==
    ShortId_from_slice(bytes_to_short_address_bytes(x.d))

NodeId_short_id(x) == ShortId_from_slice(x.d)

\* NodeId's Display without the prefix
NodeId_to_string_no_prefix(x) == encode_cb58_with_checksum(x.d)

NodeId_to_string(x) == NODE_ID_ENCODE_PREFIX \o encode_cb58_with_checksum(x.d)

\* NodeId::from_str decoding the text as it is, prefix included
NodeId_from_str_no_strip(s) ==
    Bind(decode_cb58_with_checksum(s), LAMBDA decoded :
        IF ~decoded.ok THEN Err("NodeId", "Other")
        ELSE NodeId_from_slice(decoded.bytes))

NodeId_from_str(s) ==
    LET processed == strip_node_id_prefix(s)
    IN  IF processed.kind = "panic" THEN Panic("NodeId")
        ELSE Bind(decode_cb58_with_checksum(processed.s), LAMBDA decoded :
                 IF ~decoded.ok THEN Err("NodeId", "Other")
                 ELSE NodeId_from_slice(decoded.bytes))

NodeId_cmp(x, y) == VecCmp(x.d, y.d)

NodeId_eq(x, y) == NodeId_cmp(x, y) = "Equal"

NodeId_hash(x) == VecHash(x.d)

----------------------------------------------------------------------------
(* The same operation on each of the three types.                          *)

default(t) ==
    IF t = "Id" THEN Id_default ELSE IF t = "ShortId" THEN ShortId_default
    ELSE NodeId_default

empty(t) ==
    IF t = "Id" THEN Id_empty ELSE IF t = "ShortId" THEN ShortId_empty
    ELSE NodeId_empty

from_slice(t, d) ==
    IF t = "Id" THEN Id_from_slice(d)
    ELSE IF t = "ShortId" THEN ShortId_from_slice(d)
    ELSE NodeId_from_slice(d)

to_string(x) ==
    IF x.t = "Id" THEN Id_to_string(x)
    ELSE IF x.t = "ShortId" THEN ShortId_to_string(x)
    ELSE NodeId_to_string(x)

from_str(t, s) ==
    IF t = "Id" THEN Id_from_str(s)
    ELSE IF t = "ShortId" THEN ShortId_from_str(s)
    ELSE NodeId_from_str(s)

cmp(x, y) ==
    IF x.t = "Id" THEN Id_cmp(x, y)
    ELSE IF x.t = "ShortId" THEN ShortId_cmp(x, y)
    ELSE NodeId_cmp(x, y)

eq(x, y) ==
    IF x.t = "Id" THEN Id_eq(x, y)
    ELSE IF x.t = "ShortId" THEN ShortId_eq(x, y)
    ELSE NodeId_eq(x, y)

hash(x) ==
    IF x.t = "Id" THEN Id_hash(x)
    ELSE IF x.t = "ShortId" THEN ShortId_hash(x)
    ELSE NodeId_hash(x)

\* PartialOrd's provided methods, all through partial_cmp = Some(cmp)
lt(x, y) == cmp(x, y) = "Less"

gt(x, y) == cmp(x, y) = "Greater"

\* is_empty looking at the first byte only
is_empty_first_byte(x) == x.d[1] = 0

\* (*self) == Self::empty()
is_empty(x) == eq(x, empty(x.t))

----------------------------------------------------------------------------
(* Ids, ShortIds, NodeIds: ids.rs lines 201-233, 464-496, 922-954.  The    *)
(* three wrappers have the same code; a collection is the sequence of its  *)
(* elements, and the element order is the one of the elements' type.       *)

Ids_new(ids) == ids

\* usize as Ord
UsizeCmp(l1, l2) ==
    IF l1 < l2 THEN "Less" ELSE IF l1 > l2 THEN "Greater" ELSE "Equal"

\* Vec<T> as Ord: the first pair of elements that T::cmp finds unequal
\* decides, and when there is none the lengths decide
VecOfIdsCmp(a, b) ==
    LET l == IF Len(a) < Len(b) THEN Len(a) ELSE Len(b)
        unequal == { i \in 1..l : cmp(a[i], b[i]) # "Equal" }
    IN  IF unequal # {}
        THEN LET i == CHOOSE k \in unequal : \A j \in unequal : k <= j
             IN  cmp(a[i], b[i])
        ELSE UsizeCmp(Len(a), Len(b))

\* Ids::cmp comparing the elements without looking at the lengths first
Ids_cmp_elements_first(a, b) == VecOfIdsCmp(a, b)

\* l1.cmp(&l2).then_with(|| self.0.cmp(&other.0))
Ids_cmp(a, b) ==
    IF UsizeCmp(Len(a), Len(b)) # "Equal" THEN UsizeCmp(Len(a), Len(b))
    ELSE VecOfIdsCmp(a, b)

Ids_partial_cmp(a, b) == Ids_cmp(a, b)

Ids_eq(a, b) == Ids_cmp(a, b) = "Equal"

----------------------------------------------------------------------------
(* serde: ids.rs lines 33, 107-146 for Id; 322, 384-425 for ShortId; 585,   *)
(* 713-754 for NodeId.  The code of the three types is the same, so each   *)
(* function takes the type t.  A document value is [kind |-> "null"],       *)
(* [kind |-> "bool"], a number [kind |-> "num", n |-> n], a string         *)
(* [kind |-> "str", s |-> text], a sequence [kind |-> "seq", items |-> vs] *)
(* of values, or a structure [kind |-> "map", entries |-> es] of entries   *)
(* [k |-> text, v |-> value] in the order of the document.  The errors are *)
(* named as a self-describing text format such as JSON reports them.       *)

\* serializer.serialize_str(&self.to_string())
serialize(x) == [kind |-> "str", s |-> to_string(x)]

\* the document of a byte vector: the sequence of its numbers
BytesDoc(d) ==
    [kind |-> "seq", items |-> [i \in 1..Len(d) |-> [kind |-> "num", n |-> d[i]]]]

\* Vec<u8>::deserialize: a sequence of numbers that are u8; the first
\* element that is not one decides the error
deserialize_Vec_u8(t, v) ==
    IF v.kind # "seq" THEN Err(t, "invalid type")
    ELSE LET bad == { i \in 1..Len(v.items) :
                        \/ v.items[i].kind # "num"
                        \/ v.items[i].n \notin 0..255 }
         IN  IF bad = {}
             THEN Ok(t, [i \in 1..Len(v.items) |-> v.items[i].n])
             ELSE IF v.items[CHOOSE i \in bad : \A j \in bad : i <= j].kind # "num"
             THEN Err(t, "invalid type")
             ELSE Err(t, "invalid value")

\* visit_seq of the derived visitor: the first element is the field d, none
\* is an error, and the deserializer refuses what follows the one element
\* the visitor takes
visit_seq(t, items) ==
    IF items = <<>> THEN Err(t, "invalid length")
    ELSE Bind(deserialize_Vec_u8(t, items[1]), LAMBDA r :
             IF r.kind = "err" THEN r
             ELSE IF Len(items) > 1 THEN Err(t, "trailing characters")
             ELSE r)

\* visit_map of the derived visitor, entry by entry: the key d is the field,
\* a second d is an error, every other key is ignored, and at the end the
\* field has to be there.  seen tells whether d was met, and d is its value.
RECURSIVE visit_map(_, _, _, _)
visit_map(t, entries, seen, d) ==
    IF entries = <<>>
    THEN IF seen THEN Ok(t, d) ELSE Err(t, "missing field")
    ELSE IF Head(entries).k # Str(<<"d">>)
    THEN visit_map(t, Tail(entries), seen, d)
    ELSE IF seen THEN Err(t, "duplicate field")
    ELSE Bind(deserialize_Vec_u8(t, Head(entries).v), LAMBDA r :
             IF r.kind = "err" THEN r
             ELSE visit_map(t, Tail(entries), TRUE, r.d))

\* #[derive(Deserialize)] on struct T { pub d: Vec<u8> }: the value has to
\* be a structure or a sequence, and the bytes of d are taken as they are,
\* however many
derive_Deserialize(t, v) ==
    IF v.kind = "map" THEN visit_map(t, v.entries, FALSE, <<>>)
    ELSE IF v.kind = "seq" THEN visit_seq(t, v.items)
    ELSE Err(t, "invalid type")

\* String::deserialize(deserializer)? and then from_str, its Err turned
\* into a serde error
fmt_id(t, v) ==
    IF v.kind # "str" THEN Err(t, "invalid type")
    ELSE Bind(from_str(t, v.s), LAMBDA r :
             IF r.kind = "err" THEN Err(t, "custom") ELSE r)

\* Ok(None), the result of deserialize_id on a null value
OkNone(t) == [kind |-> "ok_none", t |-> t, d |-> <<>>, e |-> "none"]

\* Option::deserialize(deserializer)? with fmt_id on the value inside
deserialize_id(t, v) ==
    IF v.kind = "null" THEN OkNone(t) ELSE fmt_id(t, v)

\* as deserialize_id, with None turned into an error
must_deserialize_id(t, v) ==
    IF v.kind = "null" THEN Err(t, "custom") ELSE fmt_id(t, v)
----------------------------------------------------------------------------
(* Inputs.                                                                 *)

Heads == UNION { [1..n -> ByteVals] : n \in 0..MaxHead }

\* the buffer of length n that starts with head h and continues with fill f
BufOf(h, f, n) == [i \in 1..n |-> IF i <= Len(h) THEN h[i] ELSE f]

\* the 32 bytes of test_id; their first 20 are the bytes of test_short_id
TestVector ==
    << 61, 10, 209, 43, 142, 232, 146, 142, 223, 36,
       140, 169, 28, 165, 86, 0, 251, 56, 63, 7,
       195, 43, 255, 29, 109, 236, 71, 43, 37, 207,
       89, 167 >>

Bufs ==
    { BufOf(h, f, n) : h \in Heads, f \in FillVals, n \in BufLens }
        \cup { TestVector, Take(TestVector, SHORT_ID_LEN) }

TagVals == {1, 258}

TagSeqs == UNION { [1..n -> TagVals] : n \in 0..MaxTags }

\* lengths a held text is cut to before it is parsed
TruncLens == {0, 3, 6, 7}

\* characters a caller's text can hold besides those of an encoded text:
\* U+007F (a control character, 1 byte), U+00E9 (2 bytes), U+20AC (3 bytes)
\* and U+1F600 (4 bytes)
OtherChars == {127, 233, 8364, 128512}

PemItems == {"X509Certificate", "RSAKey", "PKCS8Key", "ECKey"}

\* errors of File::open on a path that Path::exists found: the file was
\* removed in between, it may not be read, it is a socket
OpenErrors ==
    { [e |-> "NotFound", msg |-> Str(<<"N", "o", " ", "s", "u", "c", "h", " ", "f", "i", "l", "e", " ", "o", "r", " ", "d", "i", "r", "e", "c", "t", "o", "r", "y", " ", "(", "o", "s", " ", "e", "r", "r", "o", "r", " ", "2", ")">>)],
      [e |-> "PermissionDenied", msg |-> Str(<<"P", "e", "r", "m", "i", "s", "s", "i", "o", "n", " ", "d", "e", "n", "i", "e", "d", " ", "(", "o", "s", " ", "e", "r", "r", "o", "r", " ", "1", "3", ")">>)],
      [e |-> "Uncategorized", msg |-> Str(<<"N", "o", " ", "s", "u", "c", "h", " ", "d", "e", "v", "i", "c", "e", " ", "o", "r", " ", "a", "d", "d", "r", "e", "s", "s", " ", "(", "o", "s", " ", "e", "r", "r", "o", "r", " ", "6", ")">>)] }

\* errors of read_one: the path is a directory, the first PEM section does
\* not hold base64
ReadErrors ==
    { [e |-> "IsADirectory", msg |-> Str(<<"I", "s", " ", "a", " ", "d", "i", "r", "e", "c", "t", "o", "r", "y", " ", "(", "o", "s", " ", "e", "r", "r", "o", "r", " ", "2", "1", ")">>)],
      [e |-> "InvalidData", msg |-> Str(<<"i", "n", "v", "a", "l", "i", "d", " ", "b", "a", "s", "e", "6", "4">>)] }

\* a file that exists, opens and reads, holding the PEM items
FileOf(items) ==
    [exists |-> TRUE, open |-> NoIoError, read |-> NoIoError, items |-> items]

\* what a path can name: nothing, a file without any PEM item, a file with
\* one item of each kind carrying the DER bytes d, files with two items, and
\* what fails to open or to read, with and without a certificate inside
Files(d) ==
    { [FileOf(<<>>) EXCEPT !.exists = FALSE], FileOf(<<>>) }
        \cup { FileOf(<<[item |-> k, der |-> d]>>) : k \in PemItems }
        \cup { FileOf(<<[item |-> "RSAKey", der |-> d],
                        [item |-> "X509Certificate", der |-> d]>>),
               FileOf(<<[item |-> "X509Certificate", der |-> d],
                        [item |-> "X509Certificate", der |-> d \o <<1>>]>>) }
        \cup { [FileOf(items) EXCEPT !.open = err] :
                 err \in OpenErrors,
                 items \in {<<>>, <<[item |-> "X509Certificate", der |-> d]>>} }
        \cup { [FileOf(<<>>) EXCEPT !.read = err] : err \in ReadErrors }

Paths == { Str(<<"a", ".", "c", "r", "t">>), Str(<<"b", "/", "c", ".", "p", "e", "m">>) }

\* the elements collections are made of: v, 0, 0, .. for each byte value v
CollElems(t) ==
    { ValueOf(from_slice(t, BufOf(<<v>>, 0, NominalLen(t)))) : v \in ByteVals }

Colls(t) == UNION { [1..n -> CollElems(t)] : n \in 0..MaxColl }

----------------------------------------------------------------------------
(* The state machine: a caller holds a buffer, and calls operations of the *)
(* module on what it holds.  A panic ends the caller.                      *)

Op == IF ops = <<>> THEN "init" ELSE ops[Len(ops)]

Running == outcome # "panic"

Init ==
    /\ ty \in Types
    /\ buf \in Bufs
    /\ ops = <<>>
    /\ outcome = "none"
    /\ id = NoId
    /\ orig = NoId
    /\ text = NoText
    /\ arg = <<>>
    /\ other = NoId
    /\ res = NoRes
    /\ statics = StaticsInit

\* T::default()
Default ==
    /\ Op = "init"
    /\ ops' = Append(ops, "default")
    /\ outcome' = "ok"
    /\ id' = default(ty)
    /\ UNCHANGED <<statics, ty, buf, orig, text, arg, other, res>>

\* T::empty()
Empty ==
    /\ Op = "init"
    /\ ops' = Append(ops, "empty")
    /\ outcome' = "ok"
    /\ id' = empty(ty)
    /\ UNCHANGED <<statics, ty, buf, orig, text, arg, other, res>>

\* T::from_slice(&buf)
FromSlice ==
    /\ Op = "init"
    /\ \E r \in {from_slice(ty, buf)} :
           /\ outcome' = r.kind
           /\ id' = ValueOf(r)
    /\ ops' = Append(ops, "from_slice")
    /\ UNCHANGED <<statics, ty, buf, orig, text, arg, other, res>>

\* a second T::from_slice(&b), for the other side of a comparison
FromSliceOther ==
    /\ Running /\ Op = "from_slice"
    /\ \E b \in Bufs :
          /\ Len(b) \in {1, NominalLen(ty)}
          /\ \E r \in {from_slice(ty, b)} :
                 /\ outcome' = r.kind
                 /\ other' = ValueOf(r)
    /\ ops' = Append(ops, "from_slice_other")
    /\ UNCHANGED <<statics, ty, buf, id, orig, text, arg, res>>

\* id.cmp(&other), with the comparisons PartialOrd provides from it
Cmp ==
    /\ Running /\ Op = "from_slice_other"
    /\ res' = [kind |-> "cmp", ord |-> cmp(id, other),
               lt |-> lt(id, other), gt |-> gt(id, other)]
    /\ ops' = Append(ops, "cmp")
    /\ UNCHANGED <<statics, ty, buf, outcome, id, orig, text, arg, other>>

\* id == other
Eq ==
    /\ Running /\ Op = "cmp"
    /\ res' = [kind |-> "eq", ord |-> res.ord, lt |-> res.lt, gt |-> res.gt,
               eq |-> eq(id, other)]
    /\ ops' = Append(ops, "eq")
    /\ UNCHANGED <<statics, ty, buf, outcome, id, orig, text, arg, other>>

\* id.hash(state) and other.hash(state) into hashers in the same state
Hash ==
    /\ Running /\ Op = "eq"
    /\ res' = [kind |-> "hash", ord |-> res.ord, lt |-> res.lt, gt |-> res.gt,
               eq |-> res.eq, h1 |-> hash(id), h2 |-> hash(other)]
    /\ ops' = Append(ops, "hash")
    /\ UNCHANGED <<statics, ty, buf, outcome, id, orig, text, arg, other>>

\* id.to_string()
Display ==
    /\ Running /\ Op \in {"from_slice", "short_id"} /\ id # NoId
    /\ text' = to_string(id)
    /\ orig' = id
    /\ ops' = Append(ops, "to_string")
    /\ UNCHANGED <<statics, ty, buf, outcome, id, arg, other, res>>

\* a peer writes the checksummed text of the raw buffer
Encode ==
    /\ Op = "init"
    /\ text' = encode_cb58_with_checksum(buf)
    /\ outcome' = "ok"
    /\ ops' = Append(ops, "encode")
    /\ UNCHANGED <<statics, ty, buf, id, orig, arg, other, res>>

\* the caller puts "NodeID-" in front of an encoded body
AddPrefix ==
    /\ Op = "encode" /\ ty = "NodeId"
    /\ text' = NODE_ID_ENCODE_PREFIX \o text
    /\ ops' = Append(ops, "add_prefix")
    /\ UNCHANGED <<statics, ty, buf, outcome, id, orig, arg, other, res>>

\* the caller keeps only the encoded body of a NodeId text
DropPrefix ==
    /\ Running /\ Op = "to_string" /\ orig.t = "NodeId"
    /\ text' = Drop(text, Len(NODE_ID_ENCODE_PREFIX))
    /\ ops' = Append(ops, "drop_prefix")
    /\ UNCHANGED <<statics, ty, buf, outcome, id, orig, arg, other, res>>

\* the caller keeps only the first k characters of the text
Truncate ==
    /\ Running /\ Op = "to_string" /\ orig.t = ty
    /\ \E k \in TruncLens :
          /\ k < Len(text)
          /\ text' = Take(text, k)
    /\ ops' = Append(ops, "truncate")
    /\ UNCHANGED <<statics, ty, buf, outcome, id, orig, arg, other, res>>

\* the caller's text has the character c in its first or in its last place
ReplaceChar ==
    /\ Running /\ Op \in {"to_string", "truncate"} /\ orig.t = ty /\ text # <<>>
    /\ \E i \in {1, Len(text)}, c \in OtherChars :
          text' = [text EXCEPT ![i] = c]
    /\ ops' = Append(ops, "replace_char")
    /\ UNCHANGED <<statics, ty, buf, outcome, id, orig, arg, other, res>>

\* strip_node_id_prefix(&text)
StripPrefix ==
    /\ Running /\ Op \in {"encode", "to_string", "truncate", "replace_char"}
    /\ ty = "NodeId"
    /\ \E r \in {strip_node_id_prefix(text)} :
           /\ res' = [kind |-> "strip", s |-> r.s]
           /\ outcome' = r.kind
    /\ ops' = Append(ops, "strip")
    /\ UNCHANGED <<statics, ty, buf, id, orig, text, arg, other>>

\* T::from_str(&text)
FromStr ==
    /\ Running
    /\ Op \in {"encode", "add_prefix", "to_string", "drop_prefix", "truncate",
              "replace_char"}
    /\ Op = "to_string" => orig.t = ty
    /\ \E r \in {from_str(ty, text)} :
           /\ outcome' = r.kind
           /\ id' = ValueOf(r)
    /\ ops' = Append(ops, "from_str")
    /\ UNCHANGED <<statics, ty, buf, orig, text, arg, other, res>>

\* id.prefix(&tags)
Prefix ==
    /\ Running /\ Op = "from_slice" /\ ty = "Id" /\ Len(buf) = ID_LEN
    /\ \E tags \in TagSeqs :
          /\ arg' = tags
          /\ \E r \in Id_prefix(id, tags) :
                 /\ outcome' = r.kind
                 /\ id' = ValueOf(r)
    /\ orig' = id
    /\ ops' = Append(ops, "prefix")
    /\ UNCHANGED <<statics, ty, buf, text, other, res>>

\* NodeId::from_cert_raw(&buf)
FromCertRaw ==
    /\ Op = "init" /\ ty = "NodeId"
    /\ \E r \in {NodeId_from_cert_raw(buf)} :
           /\ outcome' = r.kind
           /\ id' = ValueOf(r)
    /\ ops' = Append(ops, "from_cert_raw")
    /\ UNCHANGED <<statics, ty, buf, orig, text, arg, other, res>>

\* NodeId::from_cert_file(path), path naming one of the files built on buf
FromCertFile ==
    /\ Op = "init" /\ ty = "NodeId"
    /\ \E path \in Paths, file \in Files(buf) :
          /\ arg' = [path |-> path, file |-> file]
          /\ \E r \in {NodeId_from_cert_file(path, file)} :
                 /\ outcome' = r.kind
                 /\ id' = ValueOf(r)
                 /\ res' = [kind |-> "io", e |-> r.e,
                            msg |-> IF r.kind = "err" THEN r.msg ELSE <<>>]
    /\ ops' = Append(ops, "from_cert_file")
    /\ UNCHANGED <<statics, ty, buf, orig, text, other>>

\* id.short_id()
ShortIdOf ==
    /\ Running /\ Op \in {"from_slice", "from_cert_raw"} /\ ty = "NodeId"
    /\ \E r \in {NodeId_short_id(id)} :
           /\ outcome' = r.kind
           /\ orig' = id
           /\ id' = ValueOf(r)
    /\ ops' = Append(ops, "short_id")
    /\ UNCHANGED <<statics, ty, buf, text, arg, other, res>>

\* Ids::new(a).cmp(&Ids::new(b)) and the comparisons derived from it; the
\* collections are made of their own elements, the held buffer plays no part
CollCmp ==
    /\ Op = "init" /\ buf = <<>>
    /\ \E a \in Colls(ty), b \in Colls(ty) :
          /\ arg' = <<Ids_new(a), Ids_new(b)>>
          /\ res' = [kind |-> "coll",
                     ord |-> Ids_cmp(Ids_new(a), Ids_new(b)),
                     lt |-> Ids_partial_cmp(Ids_new(a), Ids_new(b)) = "Less",
                     gt |-> Ids_partial_cmp(Ids_new(a), Ids_new(b)) = "Greater",
                     eq |-> Ids_eq(Ids_new(a), Ids_new(b))]
    /\ ops' = Append(ops, "coll_cmp")
    /\ UNCHANGED <<statics, ty, buf, outcome, id, orig, text, other>>

\* documents made of the buffer d: its bytes as the field of a structure
\* and as the element of a sequence, and what is close to them
DocsOf(d) ==
    { [kind |-> "null"], [kind |-> "bool"], [kind |-> "num", n |-> Len(d)],
      BytesDoc(d),
      [kind |-> "seq", items |-> <<>>],
      [kind |-> "seq", items |-> <<BytesDoc(d)>>],
      [kind |-> "seq", items |-> <<BytesDoc(d), BytesDoc(d)>>],
      [kind |-> "map", entries |-> <<>>],
      [kind |-> "map", entries |-> <<[k |-> Str(<<"d">>), v |-> BytesDoc(d)]>>],
      [kind |-> "map", entries |-> <<[k |-> Str(<<"d">>), v |-> BytesDoc(d \o <<256>>)]>>],
      [kind |-> "map", entries |-> <<[k |-> Str(<<"x">>), v |-> [kind |-> "null"]],
                                    [k |-> Str(<<"d">>), v |-> BytesDoc(d)]>>],
      [kind |-> "map", entries |-> <<[k |-> Str(<<"d">>), v |-> BytesDoc(d)],
                                    [k |-> Str(<<"d">>), v |-> BytesDoc(d)]>>] }

\* the document values the caller can hand to a deserializer: one made of
\* buf, the text it holds, or what serialize wrote
DocsHeld ==
    IF Op = "init" THEN DocsOf(buf)
    ELSE IF Op \in {"encode", "truncate", "replace_char"}
              \/ (Op = "to_string" /\ orig.t = ty)
    THEN {[kind |-> "str", s |-> text]}
    ELSE IF Op = "serialize" THEN {arg}
    ELSE {}

\* id.serialize(serializer)
Serialize ==
    /\ Running /\ Op = "from_slice" /\ id # NoId
    /\ arg' = serialize(id)
    /\ orig' = id
    /\ ops' = Append(ops, "serialize")
    /\ UNCHANGED <<statics, ty, buf, outcome, id, text, other, res>>

\* T::deserialize(v), the derived implementation
DeserializeDerived ==
    /\ Running
    /\ \E v \in DocsHeld :
          /\ arg' = v
          /\ \E r \in {derive_Deserialize(ty, v)} :
                 /\ outcome' = r.kind
                 /\ id' = ValueOf(r)
    /\ ops' = Append(ops, "derive_deserialize")
    /\ UNCHANGED <<statics, ty, buf, orig, text, other, res>>

\* deserialize_id(v), deserialize_short_id(v), deserialize_node_id(v)
DeserializeOptional ==
    /\ Running
    /\ \E v \in DocsHeld :
          /\ arg' = v
          /\ \E r \in {deserialize_id(ty, v)} :
                 /\ outcome' = r.kind
                 /\ id' = ValueOf(r)
    /\ ops' = Append(ops, "deserialize")
    /\ UNCHANGED <<statics, ty, buf, orig, text, other, res>>

\* must_deserialize_id(v), must_deserialize_short_id(v),
\* must_deserialize_node_id(v)
DeserializeRequired ==
    /\ Running
    /\ \E v \in DocsHeld :
          /\ arg' = v
          /\ \E r \in {must_deserialize_id(ty, v)} :
                 /\ outcome' = r.kind
                 /\ id' = ValueOf(r)
    /\ ops' = Append(ops, "must_deserialize")
    /\ UNCHANGED <<statics, ty, buf, orig, text, other, res>>

\* the caller writes into the byte buffer of the value that empty() or
\* default() returned: the value is its own copy (to_vec), so the sentinels
\* are not touched
MutateBuffer ==
    /\ Running /\ Op \in {"empty", "default"}
    /\ \E i \in {1, Len(id.d)} : id' = [id EXCEPT !.d[i] = 255]
    /\ ops' = Append(ops, "mutate")
    /\ UNCHANGED <<statics, ty, buf, outcome, orig, text, arg, other, res>>

\* a later T::empty(), kept next to the value the caller wrote into
EmptyAgain ==
    /\ Running /\ Op = "mutate"
    /\ other' = empty(ty)
    /\ ops' = Append(ops, "empty_again")
    /\ UNCHANGED <<statics, ty, buf, outcome, id, orig, text, arg, res>>

\* id.is_empty()
IsEmpty ==
    /\ Running /\ Op \in {"from_slice", "empty", "default", "mutate"} /\ id # NoId
    /\ res' = [kind |-> "is_empty", v |-> is_empty(id)]
    /\ ops' = Append(ops, "is_empty")
    /\ UNCHANGED <<statics, ty, buf, outcome, id, orig, text, arg, other>>

Next ==
    \/ Default
    \/ Empty
    \/ FromSlice
    \/ FromSliceOther
    \/ Cmp
    \/ Eq
    \/ Hash
    \/ Display
    \/ Encode
    \/ AddPrefix
    \/ DropPrefix
    \/ Truncate
    \/ ReplaceChar
    \/ StripPrefix
    \/ FromStr
    \/ Prefix
    \/ FromCertRaw
    \/ FromCertFile
    \/ ShortIdOf
    \/ CollCmp
    \/ Serialize
    \/ DeserializeDerived
    \/ DeserializeOptional
    \/ DeserializeRequired
    \/ MutateBuffer
    \/ EmptyAgain
    \/ IsEmpty

Spec == Init /\ [][Next]_vars

----------------------------------------------------------------------------
(* Properties.                                                             *)

StartsWithPrefix(s) ==
    /\ Len(s) >= Len(NODE_ID_ENCODE_PREFIX)
    /\ Take(s, Len(NODE_ID_ENCODE_PREFIX)) = NODE_ID_ENCODE_PREFIX

\* the run was: from_slice(buf), to_string, from_str
RoundTripRun == ops = <<"from_slice", "to_string", "from_str">>

\* C1: for a buffer of exactly the nominal length, parsing the canonical text
\* of from_slice(buf) succeeds and returns a value equal to from_slice(buf).
C1_RoundTrip ==
    (RoundTripRun /\ Len(buf) = NominalLen(ty))
        => /\ outcome = "ok"
           /\ orig = MkId(ty, buf)
           /\ eq(id, orig)
           /\ id.d = buf

C1_Witness ==
    /\ RoundTripRun
    /\ ty = "Id"
    /\ buf = TestVector
    /\ text = Str(<<"T", "t", "F", "4", "d", "2", "Q", "W", "b", "k", "5", "v", "z", "Q", "G", "T", "E", "P", "r", "N", "4", "8", "x", "6", "v", "w", "g", "A", "o", "A", "m", "K", "Q", "9", "c", "b", "p", "7", "9", "i", "n", "p", "Q", "m", "c", "R", "K", "E", "S">>)
    /\ outcome = "ok"
    /\ id.d = TestVector

\* C2: whenever from_str(text) succeeds with value x, x.to_string() is text
\* itself (for NodeId: text with "NodeID-" put in front when it lacks it), so
\* no two texts parse to the same identifier.
C2_OneCanonicalText ==
    (Op = "from_str" /\ outcome = "ok")
        => to_string(id) =
               IF ty = "NodeId" /\ ~StartsWithPrefix(text)
               THEN NODE_ID_ENCODE_PREFIX \o text
               ELSE text

\* C3: for Id and ShortId, from_slice of a buffer shorter than the nominal
\* length equals from_slice of that buffer followed by zero bytes up to the
\* nominal length.
C3_ZeroPadding ==
    (Op = "from_slice" /\ ty \in {"Id", "ShortId"} /\ Len(buf) < NominalLen(ty))
        => /\ outcome = "ok"
           /\ \E full \in {from_slice(ty, buf \o Zeros(NominalLen(ty) - Len(buf)))} :
                 /\ full.kind = "ok"
                 /\ eq(id, ValueOf(full))
                 /\ id.d = full.d

C3_Witness ==
    /\ Op = "from_slice"
    /\ ty = "Id"
    /\ buf = <<1>>
    /\ outcome = "ok"
    /\ id.d = <<1>> \o Zeros(31)

\* C4: NodeId::from_slice accepts every input of 0 to 20 bytes and right-pads
\* the shorter ones with zero bytes, as Id and ShortId do.
C4_NodeIdPads ==
    (Op = "from_slice" /\ ty = "NodeId" /\ Len(buf) <= NODE_ID_LEN)
        => /\ outcome = "ok"
           /\ id = MkId("NodeId", buf \o Zeros(NODE_ID_LEN - Len(buf)))

\* C5: from_slice on an input longer than the nominal length aborts by
\* assertion: it returns neither an identifier nor an error value.
C5_OversizedAborts ==
    (Op = "from_slice" /\ Len(buf) > NominalLen(ty))
        => outcome = "panic" /\ id = NoId

C5_Witness ==
    /\ Op = "from_slice"
    /\ ty = "Id"
    /\ Len(buf) = ID_LEN + 1
    /\ outcome = "panic"

HasNominalLength(x) == x # NoId => Len(x.d) = NominalLen(x.t)

\* C6: every identifier a constructing operation returned (default, empty,
\* from_slice, from_str, prefix, from_cert_raw, from_cert_file, short_id) holds
\* exactly 32 bytes when it is an Id and 20 when it is a ShortId or a NodeId.
\* The derived Deserialize is not one of these operations: it takes the
\* field d as the document gives it.
C6_LengthInvariant ==
    /\ Op # "derive_deserialize" => HasNominalLength(id)
    /\ HasNominalLength(orig)
    /\ HasNominalLength(other)
    /\ (Op \in {"default", "empty", "from_slice", "from_str", "prefix",
                 "from_cert_raw", "from_cert_file", "short_id"}
          /\ outcome = "ok") => id # NoId
    /\ NominalLen("Id") = 32 /\ NominalLen("ShortId") = 20 /\ NominalLen("NodeId") = 20

\* a text whose payload is shorter than an Id parses to a full-length Id
C6_Witness ==
    /\ ops = <<"encode", "from_str">>
    /\ ty = "Id"
    /\ Len(buf) = ID_LEN - 1
    /\ outcome = "ok"
    /\ Len(id.d) = ID_LEN

\* unsigned lexicographic order of two buffers of the same length, first byte
\* first
LexOrder(a, b) ==
    IF \E i \in 1..Len(a) : a[i] < b[i] /\ \A j \in 1..(i - 1) : a[j] = b[j]
    THEN "Less"
    ELSE IF \E i \in 1..Len(a) : a[i] > b[i] /\ \A j \in 1..(i - 1) : a[j] = b[j]
    THEN "Greater"
    ELSE "Equal"

Count(b) == IF b THEN 1 ELSE 0

\* C7: exactly one of x < y, x == y, x > y holds, and cmp(x, y) is the unsigned
\* lexicographic comparison of the two byte buffers, first byte first.
C7_TotalOrder ==
    (Op = "eq")
        => /\ Count(res.lt) + Count(res.eq) + Count(res.gt) = 1
           /\ res.ord = LexOrder(id.d, other.d)
           /\ res.lt <=> res.ord = "Less"
           /\ res.gt <=> res.ord = "Greater"
           /\ res.eq <=> res.ord = "Equal"

\* 0x01 0xff .. is less than 0xff 0x00 ..: the first byte decides, unsigned
C7_Witness ==
    /\ Op = "eq"
    /\ id.d[1] = 1 /\ id.d[2] = 255
    /\ other.d[1] = 255 /\ other.d[2] = 0
    /\ res.ord = "Less"
    /\ res.lt /\ ~res.eq /\ ~res.gt

\* C8: x == y holds iff every byte of the two buffers is equal, and x == y
\* implies hash(x) == hash(y).
C8_EqAndHash ==
    (Op = "hash")
        => /\ res.eq <=> (\A i \in 1..NominalLen(ty) : id.d[i] = other.d[i])
           /\ res.eq => res.h1 = res.h2

\* equal identifiers built from a 1-byte and from a full-length buffer
C8_Witness ==
    /\ Op = "hash"
    /\ Len(buf) = 1
    /\ id.d = other.d
    /\ res.eq
    /\ res.h1 = res.h2

\* C9: the text of a NodeId is "NodeID-" followed by the text of the ShortId
\* holding the same 20 bytes; the texts of Id and ShortId carry no prefix.
C9_NodeIdTextForm ==
    (Op = "to_string")
        => IF orig.t = "NodeId"
           THEN text = NODE_ID_ENCODE_PREFIX \o ShortId_to_string(MkId("ShortId", orig.d))
           ELSE ~StartsWithPrefix(text)

C9_Witness ==
    /\ Op = "to_string"
    /\ orig = MkId("NodeId", Take(TestVector, NODE_ID_LEN))
    /\ text = Str(<<"N", "o", "d", "e", "I", "D", "-", "6", "Z", "m", "B", "H", "X", "T", "q", "j", "k", "n", "J", "o", "Z", "t", "X", "b", "n", "J", "6", "x", "7", "a", "f", "8", "6", "3", "r", "X", "D", "T", "w", "x">>)

\* C10: NodeId::from_str gives the same outcome for an encoded body and for
\* that body with "NodeID-" in front, and strip_node_id_prefix returns its
\* input unchanged for every string that does not start with "NodeID-".
C10_PrefixOptional ==
    /\ (Op = "from_str" /\ ty = "NodeId" /\ ~StartsWithPrefix(text))
          => \E r \in {NodeId_from_str(NODE_ID_ENCODE_PREFIX \o text)} :
                outcome = r.kind /\ id = ValueOf(r)
    /\ (Op = "strip" /\ ~StartsWithPrefix(text))
          => outcome = "ok" /\ res.s = text

\* C11: from_str returns Ok or Err for every input string and never ends
\* abnormally; a text that fails Base58 decoding or checksum verification
\* yields Err.
C11_ParseErrorsAreValues ==
    (Op = "from_str")
        => /\ outcome \in {"ok", "err"}
           /\ \E body \in {IF ty = "NodeId" /\ StartsWithPrefix(text)
                           THEN Drop(text, Len(NODE_ID_ENCODE_PREFIX))
                           ELSE text} :
                 ~decode_cb58_with_checksum(body).ok => outcome = "err"

\* the first position where two collections of the same length differ, or 0
FirstDifference(a, b) ==
    IF \A i \in 1..Len(a) : a[i].d = b[i].d THEN 0
    ELSE CHOOSE i \in 1..Len(a) :
             /\ a[i].d # b[i].d
             /\ \A j \in 1..(i - 1) : a[j].d = b[j].d

\* C12: a shorter collection is less than a longer one whatever the elements;
\* collections of the same length are ordered by the first position where
\* their elements differ, by the element order; two collections are equal iff
\* they have the same length and equal elements at every position.
C12_LengthFirstOrder ==
    (Op = "coll_cmp")
        => \E a \in {arg[1]}, b \in {arg[2]} :
              /\ Len(a) < Len(b) => res.ord = "Less" /\ res.lt
              /\ Len(a) > Len(b) => res.ord = "Greater" /\ res.gt
              /\ Len(a) = Len(b) =>
                    res.ord = IF FirstDifference(a, b) = 0 THEN "Equal"
                              ELSE LexOrder(a[FirstDifference(a, b)].d,
                                            b[FirstDifference(a, b)].d)
              /\ res.lt <=> res.ord = "Less"
              /\ res.gt <=> res.ord = "Greater"
              /\ res.eq <=> (Len(a) = Len(b) /\ \A i \in 1..Len(a) : a[i].d = b[i].d)

\* one element 0xff.. against two elements 0x00..: the shorter one is less
C12_Witness ==
    /\ Op = "coll_cmp"
    /\ Len(arg[1]) = 1 /\ Len(arg[2]) = 2
    /\ arg[1][1].d[1] = 255
    /\ arg[2][1].d[1] = 0
    /\ res.ord = "Less" /\ res.lt /\ ~res.eq

\* text s occurs in text m
Contains(m, s) ==
    \E i \in 1..(Len(m) - Len(s) + 1) : SubSeq(m, i, i + Len(s) - 1) = s

\* read_one handed the first PEM item of the file to from_cert_file: the
\* path was found, the file opened, and the reads up to the end of the first
\* PEM section went through
FirstItemRead(file) ==
    /\ file.exists
    /\ file.open = NoIoError
    /\ file.read = NoIoError
    /\ file.items # <<>>

\* C13: from_cert_file returns an error of kind NotFound whose message
\* contains the given path when the path does not exist and when the first
\* PEM item read from the file is not an X.509 certificate; no NodeId is
\* returned.  (A file that does not open or does not read leaves through
\* the io::Error of that call, which is not the subject of the claim.)
C13_CertLoadErrors ==
    (Op = "from_cert_file"
       /\ (~arg.file.exists
             \/ (FirstItemRead(arg.file)
                   /\ Head(arg.file.items).item # "X509Certificate")))
        => /\ outcome = "err"
           /\ id = NoId
           /\ res.e = "NotFound"
           /\ Contains(res.msg, arg.path)

\* a private key followed by a certificate: the first item decides
C13_Witness ==
    /\ Op = "from_cert_file"
    /\ arg.path = Str(<<"b", "/", "c", ".", "p", "e", "m">>)
    /\ Len(arg.file.items) = 2
    /\ Head(arg.file.items).item = "RSAKey"
    /\ outcome = "err"
    /\ res.e = "NotFound"
    /\ res.msg = Str(<<"c", "e", "r", "t", " ", "p", "a", "t", "h", " ", "b", "/", "c", ".", "p", "e", "m", " ", "f", "o", "u", "n", "d", " ", "n", "o", " ", "c", "e", "r", "t">>)

\* C14: when the first PEM item read from the file is an X.509 certificate
\* with DER bytes r, from_cert_file returns what from_cert_raw(r) returns, the
\* NodeId whose 20 bytes are RIPEMD-160(SHA-256(r)); later items and the path
\* play no part.
C14_CertPipeline ==
    /\ (Op = "from_cert_file" /\ FirstItemRead(arg.file)
          /\ Head(arg.file.items).item = "X509Certificate")
          => \E raw \in {NodeId_from_cert_raw(Head(arg.file.items).der)} :
                /\ raw.kind = "ok"
                /\ outcome = "ok"
                /\ id = ValueOf(raw)
                /\ id = MkId("NodeId",
                             compute_ripemd160(compute_sha256(Head(arg.file.items).der)))
    /\ (Op = "from_cert_raw")
          => /\ outcome = "ok"
             /\ id = MkId("NodeId", compute_ripemd160(compute_sha256(buf)))

\* two certificates in the file, the first with the 32 DER bytes of TestVector
C14_Witness ==
    /\ Op = "from_cert_file"
    /\ Len(arg.file.items) = 2
    /\ arg.file.items[1] = [item |-> "X509Certificate", der |-> TestVector]
    /\ arg.file.items[2].item = "X509Certificate"
    /\ outcome = "ok"
    /\ id = MkId("NodeId", <<39, 165, 56, 234, 231, 3, 111, 41, 191, 8, 181, 35, 119, 46, 2, 168, 160, 66, 105, 85>>)

\* the bytes of the NodeId the run constructed first
NodeBytes ==
    IF ops[1] = "from_slice" THEN buf ELSE compute_ripemd160(compute_sha256(buf))

\* C15: n.short_id() is the ShortId holding exactly the 20 bytes of n, n is
\* left as it was, and the text of n.short_id() is the text of n without
\* "NodeID-".
C15_ShortIdReinterprets ==
    /\ (Op = "short_id")
          => /\ outcome = "ok"
             /\ orig = MkId("NodeId", NodeBytes)
             /\ id = MkId("ShortId", NodeBytes)
    /\ (Len(ops) = 3 /\ ops[2] = "short_id" /\ ops[3] = "to_string")
          => /\ orig = MkId("ShortId", NodeBytes)
             /\ NODE_ID_ENCODE_PREFIX \o text = NodeId_to_string(MkId("NodeId", NodeBytes))

C15_Witness ==
    /\ ops = <<"from_slice", "short_id", "to_string">>
    /\ buf = Take(TestVector, NODE_ID_LEN)
    /\ orig = MkId("ShortId", buf)
    /\ text = Str(<<"6", "Z", "m", "B", "H", "X", "T", "q", "j", "k", "n", "J", "o", "Z", "t", "X", "b", "n", "J", "6", "x", "7", "a", "f", "8", "6", "3", "r", "X", "D", "T", "w", "x">>)

\* the 8-byte big-endian encodings of the tags, in order
RECURSIVE TagBytes(_)
TagBytes(tags) ==
    IF tags = <<>> THEN <<>> ELSE U64Bytes(Head(tags)) \o TagBytes(Tail(tags))

\* C16: for every Id x and every sequence of k >= 0 tags, x.prefix(tags)
\* completes and returns the Id whose bytes are SHA-256 of the 8*k + 32 bytes
\* made of the tags' big-endian encodings followed by the bytes of x.
C16_PrefixHashesAllTags ==
    (Op = "prefix")
        => /\ outcome = "ok"
           /\ Len(TagBytes(arg) \o orig.d) = 8 * Len(arg) + 32
           /\ id = MkId("Id", compute_sha256(TagBytes(arg) \o orig.d))

\* what the binding functions are claimed to make of a string: the parsed
\* identifier when from_str gives one, an error otherwise
BindingOfString(s) ==
    \E r \in {from_str(ty, s)} :
        IF r.kind = "ok" THEN outcome = "ok" /\ id = ValueOf(r)
        ELSE outcome = "err" /\ id = NoId

\* C17: deserialize_<type> maps a null value to Ok(None), a string that
\* parses to Ok(Some(id)) and a string that does not parse to Err;
\* must_deserialize_<type> maps a string that parses to Ok(id) and both a null
\* value and an unparsable string to Err, never to an identifier.
C17_OptionalAndRequired ==
    /\ (Op = "deserialize" /\ arg.kind = "null") => outcome = "ok_none" /\ id = NoId
    /\ (Op = "must_deserialize" /\ arg.kind = "null") => outcome = "err" /\ id = NoId
    /\ (Op \in {"deserialize", "must_deserialize"} /\ arg.kind = "str")
          => BindingOfString(arg.s)

\* C18: the type's own Deserialize accepts the string its Serialize wrote and
\* gives back an equal identifier: deserialize(serialize(x)) == x.
C18_SerdeRoundTrip ==
    (Len(ops) = 3 /\ ops[2] = "serialize" /\ ops[3] = "derive_deserialize")
        => /\ arg = [kind |-> "str", s |-> to_string(orig)]
           /\ outcome = "ok"
           /\ eq(id, orig)

\* C19: empty() and default() return the all-zero value of the nominal length,
\* is_empty() is true iff every byte is zero, and empty() still returns the
\* all-zero value after the buffer of a value it returned earlier was written
\* to: the sentinels are never written.
C19_EmptySentinel ==
    /\ statics = [EMPTY |-> Zeros(32), SHORT_EMPTY |-> Zeros(20),
                  NODE_ID_EMPTY |-> Zeros(20)]
    /\ (Op \in {"empty", "default"})
          => outcome = "ok" /\ id = MkId(ty, Zeros(NominalLen(ty)))
    /\ (Op = "is_empty")
          => (res.v <=> \A i \in 1..Len(id.d) : id.d[i] = 0)
    /\ (Op = "empty_again")
          => other = MkId(ty, Zeros(NominalLen(ty))) /\ id # other

\* the last byte of a value from empty() was written, and empty() is called
\* again
C19_Witness ==
    /\ ops = <<"empty", "mutate", "empty_again">>
    /\ ty = "Id"
    /\ id.d[ID_LEN] = 255
    /\ other.d = Zeros(ID_LEN)

\* C20: for every existing file, also an empty one and one without any PEM
\* block, from_cert_file returns Ok(NodeId) or an Err value and does not end
\* abnormally.
C20_CertFileTotal ==
    (Op = "from_cert_file" /\ arg.file.exists)
        => outcome \in {"ok", "err"}

====
